---- MODULE Spec2Model ----
(***************************************************************************)
(* Model of the insurance recommendation service of src/main.py: the       *)
(* catalog loaded at start-up (policies_data), the five HTTP handlers, and *)
(* the scoring / ranking done by POST /quote.                              *)
(*                                                                         *)
(* Representation of the Python values:                                    *)
(*   - a policy is a record with the fields the handlers read;             *)
(*   - policy["name"] is a sequence of one-character strings, so that      *)
(*     `"ULIP" in name` is a real substring test;                          *)
(*   - policy["eligibility"] is a set of <<key, value>> pairs;             *)
(*   - policy["premium_yearly"] is a sequence of <<key, value>> pairs in   *)
(*     insertion order; a value is Num(n) or Null (JSON null, a value      *)
(*     arithmetic rejects with TypeError);                                 *)
(*   - the fields of UserProfile that get_quote never reads                *)
(*     (dependents_count, annual_income_band, vehicle_type, health_flags)  *)
(*     are left out of a profile.                                          *)
(***************************************************************************)
EXTENDS Integers, Sequences, FiniteSets, TLC

VARIABLES
    policies_data,    \* the module-level catalog list
    request,          \* the request handled last
    response,         \* the response (or unhandled failure) it produced
    scored_policies,  \* get_quote's local list when it returned or failed
    remembered        \* an earlier exchange noted by an observer (history)

vars == <<policies_data, request, response, scored_policies, remembered>>

-----------------------------------------------------------------------------
(* Bounds and program constants *)

\* longest catalog loaded at start-up
MaxCatalog == 4

\* longest catalog in the specification that keeps an observer's history
MaxCatalogHist == 2

\* sorted_policies[:3]
top_n == 3

\* policy["eligibility"].get("min_age", 0)
DefaultMinAge == 0

\* policy["eligibility"].get("max_age", 100)
DefaultMaxAge == 100

-----------------------------------------------------------------------------
(* Python values *)

Num(n) == [tag |-> "num", val |-> n]
Null == [tag |-> "null", val |-> 0]
\* float('inf')
Inf == [tag |-> "inf", val |-> 0]

Digit == <<"0", "1", "2", "3", "4", "5", "6", "7", "8", "9">>

\* str(n) of a non-negative int: its decimal digits
RECURSIVE Str(_)
Str(n) == IF n < 10 THEN Digit[n + 1] ELSE Str(n \div 10) \o Digit[(n % 10) + 1]

\* min(list) of a non-empty list of ints
ListMin(s) == CHOOSE m \in {s[i] : i \in DOMAIN s} : \A i \in DOMAIN s : m <= s[i]

Abs(n) == IF n < 0 THEN -n ELSE n

\* needle in haystack, both sequences of characters
Contains(haystack, needle) ==
    \E i \in 0..(Len(haystack) - Len(needle)) :
        \A j \in 1..Len(needle) : haystack[i + j] = needle[j]

-----------------------------------------------------------------------------
(* The catalogs policies.json may hold, and the profiles a request may carry *)

\* a health plan with two coverage tiers, listed out of order
PolicyCare ==
    [policy_id |-> "CARE", name |-> <<"C", "a", "r", "e">>, type |-> "health",
     sum_insured |-> <<10, 5>>,
     premium_yearly |-> <<<<"10", Num(20)>>, <<"5", Num(10)>>>>,
     eligibility |-> {<<"min_age", 18>>, <<"max_age", 65>>}]

\* a life plan whose name contains "ULIP", no age bounds
PolicyUlip ==
    [policy_id |-> "ULIP", name |-> <<"M", "y", "U", "L", "I", "P">>, type |-> "life",
     sum_insured |-> <<5>>,
     premium_yearly |-> <<<<"5", Num(10)>>>>,
     eligibility |-> {}]

\* a flat-priced motor plan with an empty sum_insured list
PolicyMotor ==
    [policy_id |-> "MOTOR", name |-> <<"U", "L", "I">>, type |-> "motor",
     sum_insured |-> <<>>,
     premium_yearly |-> <<<<"flat", Num(12)>>, <<"plus", Num(10)>>>>,
     eligibility |-> {<<"min_age", 18>>}]

\* a flat-priced plan (sum_insured [0]) with no premium at all
PolicyTravel ==
    [policy_id |-> "TRAVEL", name |-> <<"T", "r", "i", "p">>, type |-> "travel",
     sum_insured |-> <<0>>,
     premium_yearly |-> <<>>,
     eligibility |-> {<<"max_age", 65>>}]

\* a health plan whose premium mapping lacks the key of its lowest tier
PolicyGap ==
    [policy_id |-> "GAP", name |-> <<"G", "a", "p">>, type |-> "health",
     sum_insured |-> <<5>>,
     premium_yearly |-> <<<<"10", Num(10)>>>>,
     eligibility |-> {}]

\* a flat-priced life plan whose premium is JSON null
PolicyNull ==
    [policy_id |-> "NULL", name |-> <<"N", "i", "l">>, type |-> "life",
     sum_insured |-> <<0>>,
     premium_yearly |-> <<<<"flat", Null>>>>,
     eligibility |-> {}]

Pool == {PolicyCare, PolicyUlip, PolicyMotor, PolicyTravel, PolicyGap, PolicyNull}

\* the lists of at most n distinct policies (policy_id is unique); the empty list
\* is also what a missing or corrupt policies.json leaves
Catalogs(n) ==
    {c \in UNION {[1..k -> Pool] : k \in 0..n} :
        \A i, j \in DOMAIN c : c[i] = c[j] => i = j}

Ages == {10, 18, 70, 101}
RiskTolerances == {"Low", "Medium", "High"}
PremiumBands == {-10, 0, 8, 10}

Profiles ==
    [age : Ages, risk_tolerance : RiskTolerances, preferred_premium_band : PremiumBands]

\* the profile slot of a request that carries none
NoProfile == [age |-> 0, risk_tolerance |-> "", preferred_premium_band |-> 0]

-----------------------------------------------------------------------------
(* POST /quote, step 1: the eligibility filter *)

\* policy["eligibility"].get(key, default)
EligibilityGet(eligibility, key, default) ==
    IF \E kv \in eligibility : kv[1] = key
    THEN (CHOOSE kv \in eligibility : kv[1] = key)[2]
    ELSE default

\* a filter that forgets the upper bound
IsEligibleNoUpperBound(policy, age) ==
    EligibilityGet(policy.eligibility, "min_age", DefaultMinAge) <= age

\* min_age <= profile.age <= max_age
IsEligible(policy, age) ==
    LET min_age == EligibilityGet(policy.eligibility, "min_age", DefaultMinAge)
        max_age == EligibilityGet(policy.eligibility, "max_age", DefaultMaxAge)
    IN  min_age <= age /\ age <= max_age

\* the list the first loop builds, in catalog order
eligible_policies(catalog, profile) ==
    SelectSeq(catalog, LAMBDA policy : IsEligible(policy, profile.age))

-----------------------------------------------------------------------------
(* POST /quote, step 2: scoring one policy inside the try block.  A step of *)
(* the block yields [exc |-> "", val |-> v] or [exc |-> <exception>].       *)

Value(v) == [exc |-> "", val |-> v]
Raise(e) == [exc |-> e, val |-> Null]

\* not policy["sum_insured"] or policy["sum_insured"] == [0]
IsFlatPriced(policy) ==
    policy.sum_insured = <<>> \/ policy.sum_insured = <<0>>

\* list(policy["premium_yearly"].values())[0]
FirstValue(premium_yearly) ==
    IF premium_yearly = <<>> THEN Raise("IndexError") ELSE Value(premium_yearly[1][2])

\* policy["premium_yearly"].get(key, float('inf'))
PremiumGet(premium_yearly, key) ==
    IF \E i \in DOMAIN premium_yearly : premium_yearly[i][1] = key
    THEN premium_yearly[CHOOSE i \in DOMAIN premium_yearly : premium_yearly[i][1] = key][2]
    ELSE Inf

\* the if / else that sets reference_premium
reference_premium(policy) ==
    IF IsFlatPriced(policy)
    THEN FirstValue(policy.premium_yearly)
    ELSE LET lowest_sum_insured == Str(ListMin(policy.sum_insured))
         IN  Value(PremiumGet(policy.premium_yearly, lowest_sum_insured))

\* abs(reference_premium - band) / band.  The quotient of two ints is kept
\* as the exact fraction num / den; of an infinity, as its sign.
premium_diff_percent(ref, band) ==
    CASE ref.tag = "null" -> Raise("TypeError")
      [] band = 0 -> Raise("ZeroDivisionError")
      [] ref.tag = "inf" ->
            Value([tag |-> IF band > 0 THEN "+inf" ELSE "-inf", num |-> 0, den |-> 1])
      [] OTHER -> Value([tag |-> "frac", num |-> Abs(ref.val - band), den |-> band])

\* diff < p / q, for a positive q (0.2 is 1 / 5, 0.5 is 1 / 2: within the
\* premiums of a catalog the float quotient compares as the exact one does)
LessThan(diff, p, q) ==
    CASE diff.tag = "+inf" -> FALSE
      [] diff.tag = "-inf" -> TRUE
      [] diff.den > 0 -> diff.num * q < p * diff.den
      [] OTHER -> diff.num * q > p * diff.den

\* if diff < 0.2: score += 3 / elif diff < 0.5: score += 1
ProximityBonus(diff) ==
    IF LessThan(diff, 1, 5) THEN 3
    ELSE IF LessThan(diff, 1, 2) THEN 1
    ELSE 0

\* if risk_tolerance == "Low" and type in ["life", "health"]: score += 2
LowRiskBonus(profile, policy) ==
    IF profile.risk_tolerance = "Low" /\ policy.type \in {"life", "health"} THEN 2 ELSE 0

\* a ULIP bonus granted whatever the risk tolerance
HighRiskBonusAnyTolerance(profile, policy) ==
    IF Contains(policy.name, <<"U", "L", "I", "P">>) THEN 3 ELSE 0

\* if risk_tolerance == "High" and "ULIP" in name: score += 3
HighRiskBonus(profile, policy) ==
    IF profile.risk_tolerance = "High" /\ Contains(policy.name, <<"U", "L", "I", "P">>)
    THEN 3 ELSE 0

\* the body of the try block for one policy: its score, or the exception raised
ScorePolicy(policy, profile) ==
    LET ref == reference_premium(policy)
    IN  IF ref.exc # "" THEN Raise(ref.exc)
        ELSE LET diff == premium_diff_percent(ref.val, profile.preferred_premium_band)
             IN  IF diff.exc # "" THEN Raise(diff.exc)
                 ELSE Value(ProximityBonus(diff.val)
                            + LowRiskBonus(profile, policy)
                            + HighRiskBonus(profile, policy))

\* an except clause that swallows every exception
CaughtAll == {"ValueError", "TypeError", "ZeroDivisionError", "IndexError"}

\* except (ValueError, TypeError): continue
Caught == {"ValueError", "TypeError"}

\* the second loop from position i on, scored so far: the list when the loop
\* ends, or the exception that leaves the handler
RECURSIVE ScoreLoop(_, _, _, _)
ScoreLoop(eligible, i, scored, profile) ==
    IF i > Len(eligible) THEN [exc |-> "", scored |-> scored]
    ELSE LET r == ScorePolicy(eligible[i], profile)
         IN  IF r.exc = ""
             THEN ScoreLoop(eligible, i + 1,
                            Append(scored, [policy |-> eligible[i], score |-> r.val]),
                            profile)
             ELSE IF r.exc \in Caught
             THEN ScoreLoop(eligible, i + 1, scored, profile)
             ELSE [exc |-> r.exc, scored |-> scored]

-----------------------------------------------------------------------------
(* POST /quote, steps 3 and 4: ranking and truncation *)

\* a descending sort that puts an entry in front of its ties
InsertPositionBeforeTies(placed, entry) ==
    Cardinality({i \in DOMAIN placed : placed[i].score > entry.score})

\* where sorted(..., reverse=True) puts an entry among those already placed:
\* behind every entry whose score is at least its own
InsertPosition(placed, entry) ==
    Cardinality({i \in DOMAIN placed : placed[i].score >= entry.score})

InsertAt(placed, k, entry) ==
    SubSeq(placed, 1, k) \o <<entry>> \o SubSeq(placed, k + 1, Len(placed))

\* sorted(scored_policies, key=lambda x: x["score"], reverse=True)
RECURSIVE SortFrom(_, _, _)
SortFrom(scored, i, placed) ==
    IF i > Len(scored) THEN placed
    ELSE SortFrom(scored, i + 1,
                  InsertAt(placed, InsertPosition(placed, scored[i]), scored[i]))

sorted_policies(scored) == SortFrom(scored, 1, <<>>)

\* a response that forgets the slice
AllSortedPolicies(sorted) == [i \in 1..Len(sorted) |-> sorted[i].policy]

\* [p["policy"] for p in sorted_policies[:3]]
top_3_policies(sorted) ==
    LET n == IF Len(sorted) < top_n THEN Len(sorted) ELSE top_n
    IN  [i \in 1..n |-> sorted[i].policy]

-----------------------------------------------------------------------------
(* The handlers.  A response is [status, count, body, error]: status 200    *)
(* with the payload (count for the policy count of GET / and GET /health,   *)
(* body for the policies of GET /policies and POST /quote), or status 500   *)
(* with the exception that left the handler.                                *)

Ok(count, body) == [status |-> 200, count |-> count, body |-> body, error |-> ""]
Failure(e) == [status |-> 500, count |-> 0, body |-> <<>>, error |-> e]
\* no response: nothing is being handled
NoResponse == [status |-> 0, count |-> 0, body |-> <<>>, error |-> ""]

Request(endpoint, profile) == [endpoint |-> endpoint, profile |-> profile]

NoExchange == [request |-> Request("", NoProfile), response |-> NoResponse]

\* get_quote's result on a catalog: the response and the local scored list
get_quote(catalog, profile) ==
    LET loop == ScoreLoop(eligible_policies(catalog, profile), 1, <<>>, profile)
    IN  [response |-> IF loop.exc # "" THEN Failure(loop.exc)
                      ELSE Ok(0, top_3_policies(sorted_policies(loop.scored))),
         scored |-> loop.scored]

\* a handler that filters the module-level list itself
CatalogKeepsEligible(catalog, profile) == eligible_policies(catalog, profile)

\* a handler that reverses the module-level list in place
CatalogReversed(catalog, profile) ==
    [i \in 1..Len(catalog) |-> catalog[Len(catalog) + 1 - i]]

\* what handling POST /quote leaves in the catalog: it is only read
CatalogAfterQuote(catalog, profile) == catalog

\* no request is being handled
Idle == request.endpoint = ""

\* GET /
read_root ==
    /\ Idle
    /\ request' = Request("GET /", NoProfile)
    /\ response' = Ok(Len(policies_data), <<>>)
    /\ scored_policies' = <<>>
    /\ UNCHANGED <<policies_data, remembered>>

\* GET /health
health_check ==
    /\ Idle
    /\ request' = Request("GET /health", NoProfile)
    /\ response' = Ok(Len(policies_data), <<>>)
    /\ scored_policies' = <<>>
    /\ UNCHANGED <<policies_data, remembered>>

\* GET /policies
get_policies ==
    /\ Idle
    /\ request' = Request("GET /policies", NoProfile)
    /\ response' = Ok(0, policies_data)
    /\ scored_policies' = <<>>
    /\ UNCHANGED <<policies_data, remembered>>

\* POST /quote with a body that passed validation
PostQuote ==
    \E profile \in Profiles :
        LET q == get_quote(policies_data, profile)
        IN  /\ Idle
            /\ request' = Request("POST /quote", profile)
            /\ response' = q.response
            /\ scored_policies' = q.scored
            /\ policies_data' = CatalogAfterQuote(policies_data, profile)
            /\ UNCHANGED remembered

\* POST /handoff
create_handoff ==
    /\ Idle
    /\ request' = Request("POST /handoff", NoProfile)
    /\ response' = Ok(0, <<>>)
    /\ scored_policies' = <<>>
    /\ UNCHANGED <<policies_data, remembered>>

\* the response (or the failure) goes out and the request's data are dropped
SendResponse ==
    /\ ~Idle
    /\ request' = Request("", NoProfile)
    /\ response' = NoResponse
    /\ scored_policies' = <<>>
    /\ UNCHANGED <<policies_data, remembered>>

\* the same, with an observer noting the exchange to compare later ones with
Remember ==
    /\ ~Idle
    /\ remembered' = [request |-> request, response |-> response]
    /\ request' = Request("", NoProfile)
    /\ response' = NoResponse
    /\ scored_policies' = <<>>
    /\ UNCHANGED policies_data

\* module load: policies_data is the parsed file, or [] when loading failed
InitWith(catalogs) ==
    /\ policies_data \in catalogs
    /\ request = Request("", NoProfile)
    /\ response = NoResponse
    /\ scored_policies = <<>>
    /\ remembered = NoExchange

Init == InitWith(Catalogs(MaxCatalog))

Next ==
    \/ read_root
    \/ health_check
    \/ get_policies
    \/ PostQuote
    \/ create_handoff
    \/ SendResponse

Spec == Init /\ [][Next]_vars

\* the same service on short catalogs, with the observer
InitHist == InitWith(Catalogs(MaxCatalogHist))

NextHist == Next \/ Remember

SpecHist == InitHist /\ [][NextHist]_vars

-----------------------------------------------------------------------------
(* Vocabulary of the properties, stated from the documented behaviour *)

QuoteHandled == request.endpoint = "POST /quote"
QuoteReturned == QuoteHandled /\ response.status = 200
Age == request.profile.age
Band == request.profile.preferred_premium_band
Risk == request.profile.risk_tolerance

HasKey(eligibility, key) == \E kv \in eligibility : kv[1] = key
KeyValue(eligibility, key) == (CHOOSE kv \in eligibility : kv[1] = key)[2]

MinAgeOf(policy) ==
    IF HasKey(policy.eligibility, "min_age") THEN KeyValue(policy.eligibility, "min_age") ELSE 0

MaxAgeOf(policy) ==
    IF HasKey(policy.eligibility, "max_age") THEN KeyValue(policy.eligibility, "max_age") ELSE 100

WithinAgeBounds(policy, age) == MinAgeOf(policy) <= age /\ age <= MaxAgeOf(policy)

FlatPriced(policy) == policy.sum_insured \in {<<>>, <<0>>}

\* sum_insured is empty or [0] and premium_yearly is an empty mapping
NoFirstValue(policy) == FlatPriced(policy) /\ policy.premium_yearly = <<>>

\* the documented reference premium of a policy that has one
DocumentedPremium(policy) ==
    IF FlatPriced(policy) THEN policy.premium_yearly[1][2]
    ELSE LET key == Str(ListMin(policy.sum_insured))
             at == {i \in DOMAIN policy.premium_yearly : policy.premium_yearly[i][1] = key}
         IN  IF at = {} THEN Inf ELSE policy.premium_yearly[CHOOSE i \in at : TRUE][2]

\* the policy reaches the division: its reference premium is a number or infinite
Priced(policy) == ~NoFirstValue(policy) /\ DocumentedPremium(policy).tag \in {"num", "inf"}

CatalogPolicies == {policies_data[i] : i \in DOMAIN policies_data}
CatalogPosition(policy) == CHOOSE i \in DOMAIN policies_data : policies_data[i] = policy
Recommended == {response.body[i] : i \in DOMAIN response.body}
Scored == {scored_policies[i].policy : i \in DOMAIN scored_policies}
ScoreOf(policy) == (CHOOSE e \in {scored_policies[i] : i \in DOMAIN scored_policies} : e.policy = policy).score

Min2(a, b) == IF a < b THEN a ELSE b

\* the documented risk-alignment bonus
DocumentedRiskBonus(policy) ==
    (IF Risk = "Low" /\ policy.type \in {"life", "health"} THEN 2 ELSE 0)
    + (IF Risk = "High" /\ Contains(policy.name, <<"U", "L", "I", "P">>) THEN 3 ELSE 0)

\* the proximity bonus a scored policy received
ProximityReceived(policy) == ScoreOf(policy) - DocumentedRiskBonus(policy)

-----------------------------------------------------------------------------
(* C1: every policy POST /quote returns satisfies min_age <= profile.age    *)
(* <= max_age, with min_age 0 and max_age 100 when the key is absent.       *)
C1_RecommendationsAreEligible ==
    QuoteReturned => \A policy \in Recommended : WithinAgeBounds(policy, Age)

\* a policy admitted by the default bounds is returned while a priced policy
\* of the catalog is kept out for its max_age
C1_Witness ==
    /\ QuoteReturned
    /\ \E policy \in Recommended : policy.eligibility = {}
    /\ \E policy \in CatalogPolicies : Priced(policy) /\ Age > MaxAgeOf(policy)

\* p is ranked before q: a higher score, or the same score and earlier in the catalog
RanksBefore(p, q) ==
    \/ ScoreOf(p) > ScoreOf(q)
    \/ ScoreOf(p) = ScoreOf(q) /\ CatalogPosition(p) < CatalogPosition(q)

(* C2: the response is the first 3 scored policies by score descending,     *)
(* ties in catalog order: returned policies are ordered so, and no omitted  *)
(* scored policy ranks before a returned one.                               *)
C2_StableDescendingTop3 ==
    QuoteReturned =>
        /\ Recommended \subseteq Scored
        /\ Len(response.body) = Min2(3, Len(scored_policies))
        /\ \A i, j \in DOMAIN response.body :
              i < j => RanksBefore(response.body[i], response.body[j])
        /\ \A p \in Recommended : \A q \in Scored \ Recommended : RanksBefore(p, q)

\* four scored policies, two returned ones tied, and a tie at the cut
C2_Witness ==
    /\ QuoteReturned
    /\ Len(scored_policies) = 4
    /\ \E i, j \in DOMAIN response.body :
          i < j /\ ScoreOf(response.body[i]) = ScoreOf(response.body[j])
    /\ \E q \in Scored \ Recommended : ScoreOf(q) = ScoreOf(response.body[3])

(* C3: an eligible policy with sum_insured empty or [0] and an empty        *)
(* premium_yearly is skipped: the request still returns, without it, and    *)
(* with the other eligible policies scored.                                 *)
C3_EmptyPremiumIsSkipped ==
    (/\ QuoteHandled
     /\ Band # 0
     /\ \E policy \in CatalogPolicies : WithinAgeBounds(policy, Age) /\ NoFirstValue(policy))
    =>
    /\ response.status = 200
    /\ \A policy \in CatalogPolicies :
          /\ NoFirstValue(policy) => policy \notin Scored /\ policy \notin Recommended
          /\ WithinAgeBounds(policy, Age) /\ Priced(policy) => policy \in Scored

(* C4 as stated: with preferred_premium_band = 0 POST /quote always fails   *)
(* with a division error.                                                   *)
C4_ZeroBandAlwaysFails ==
    QuoteHandled /\ Band = 0 => response.status = 500 /\ response.error = "ZeroDivisionError"

\* the eligible policies, in catalog order, that are not skipped on the way
\* to the division
NotSkipped(policy) == WithinAgeBounds(policy, Age) /\ (NoFirstValue(policy) \/ Priced(policy))

FirstNotSkipped ==
    LET at == {i \in DOMAIN policies_data : NotSkipped(policies_data[i])}
    IN  policies_data[CHOOSE i \in at : \A j \in at : i <= j]

(* C4 amended: with preferred_premium_band = 0 POST /quote fails with a     *)
(* division error exactly when the first eligible policy that is not        *)
(* skipped for a non-numeric premium has a numeric or infinite reference    *)
(* premium; it returns, with no recommendation, exactly when every eligible *)
(* policy is skipped (or none is eligible); it never returns a policy.      *)
C4_ZeroBandFailsAtFirstDivision ==
    QuoteHandled /\ Band = 0 =>
        LET reached == \E policy \in CatalogPolicies : NotSkipped(policy)
        IN  /\ response.status = 200 <=> ~reached
            /\ response.status = 200 => response.body = <<>>
            /\ response.error = "ZeroDivisionError" <=> (reached /\ Priced(FirstNotSkipped))

\* the division fails after a policy with a null premium was skipped
C4_Witness ==
    /\ QuoteHandled
    /\ Band = 0
    /\ response.error = "ZeroDivisionError"
    /\ \E policy \in CatalogPolicies :
          /\ WithinAgeBounds(policy, Age) /\ ~NotSkipped(policy)
          /\ CatalogPosition(policy) < CatalogPosition(FirstNotSkipped)

\* n / d < p / q, for a non-zero d and a positive q
QuotientBelow(n, d, p, q) == IF d > 0 THEN n * q < p * d ELSE n * q > p * d

DocumentedProximityBonus(policy) ==
    LET ref == DocumentedPremium(policy)
        n == Abs(ref.val - Band)
    IN  IF ref.tag = "inf" THEN 0
        ELSE IF QuotientBelow(n, Band, 1, 5) THEN 3
        ELSE IF QuotientBelow(n, Band, 1, 2) THEN 1
        ELSE 0

(* C5: the score of every scored policy equals the documented formula:     *)
(* 3 if |ref - band| / band < 0.2, else 1 if < 0.5, else 0, and 0 for an    *)
(* infinite ref (key absent), plus the risk-alignment bonus; a health       *)
(* policy priced exactly at the band scores 5 under risk_tolerance "Low".   *)
C5_ScoreIsDocumentedFormula ==
    QuoteHandled =>
        \A policy \in Scored :
            /\ ScoreOf(policy) = DocumentedProximityBonus(policy) + DocumentedRiskBonus(policy)
            /\ (/\ policy.type = "health" /\ Risk = "Low"
                /\ DocumentedPremium(policy) = Num(Band)) => ScoreOf(policy) = 5

(* C6: the number of recommendations is at most 3 and equals min(3, number  *)
(* of scored policies), the scored policies being the eligible policies     *)
(* whose reference premium is a number or infinite.                         *)
C6_LengthIsMinOfThreeAndScored ==
    QuoteReturned =>
        LET scorable == {policy \in CatalogPolicies : WithinAgeBounds(policy, Age) /\ Priced(policy)}
        IN  /\ Len(response.body) <= 3
            /\ Scored = scorable
            /\ Len(response.body) = Min2(3, Cardinality(scorable))

\* four policies are scored and three are returned
C6_Witness ==
    /\ QuoteReturned
    /\ Cardinality(Scored) = 4
    /\ Len(response.body) = 3

PoliciesSeen(exchange) == exchange.request.endpoint = "GET /policies"
HealthSeen(exchange) == exchange.request.endpoint = "GET /health"
Current == [request |-> request, response |-> response]

(* C7: no request changes the catalog: what GET /policies returned earlier  *)
(* is the catalog now, and the count GET /health reports equals the number  *)
(* of entries GET /policies returns, whatever was handled in between.       *)
C7_CatalogNeverMutated ==
    /\ PoliciesSeen(remembered) => remembered.response.body = policies_data
    /\ PoliciesSeen(Current) => response.body = policies_data
    /\ HealthSeen(remembered) => remembered.response.count = Len(policies_data)
    /\ HealthSeen(Current) => response.count = Len(policies_data)
    /\ HealthSeen(remembered) /\ PoliciesSeen(Current)
          => remembered.response.count = Len(response.body)
    /\ PoliciesSeen(remembered) /\ HealthSeen(Current)
          => Len(remembered.response.body) = response.count

\* POST /quote returned policies after GET /policies listed a catalog of two,
\* and the catalog is still that list
C7_Witness ==
    /\ PoliciesSeen(remembered)
    /\ Len(remembered.response.body) = 2
    /\ QuoteHandled
    /\ Recommended # {}
    /\ policies_data = remembered.response.body

(* C8: POST /quote is deterministic and idempotent: a call with the profile *)
(* of an earlier call yields the outcome of that call (the same list, or    *)
(* the same failure), whatever was handled in between.                      *)
C8_QuoteIsIdempotent ==
    QuoteHandled /\ remembered.request = request => response = remembered.response

\* a call repeats an earlier one and returns its two policies again
C8_Witness ==
    /\ QuoteHandled
    /\ remembered.request = request
    /\ Len(response.body) = 2

\* the conditions of both risk bonuses hold of the policy
Overlapping(policy) ==
    policy.type \in {"life", "health"} /\ Contains(policy.name, <<"U", "L", "I", "P">>)

(* C9 as stated: a policy of type life or health whose name contains ULIP   *)
(* can gain both risk bonuses in one request: where such a policy, priced   *)
(* exactly at a preferred band, is scored, some profile scores it 8.        *)
C9_ScoreEightReachable ==
    (/\ QuoteHandled
     /\ \E policy \in Scored : Overlapping(policy) /\ DocumentedPremium(policy) = Num(Band))
    => \E profile \in Profiles :
          LET scored == get_quote(policies_data, profile).scored
          IN  \E i \in DOMAIN scored : Overlapping(scored[i].policy) /\ scored[i].score = 8

(* C9 amended: the two risk bonuses exclude each other within a request     *)
(* (risk_tolerance is one string): a policy gains +2 only under "Low", +3   *)
(* only under "High", never both, so no score exceeds 6.                    *)
C9_RiskBonusesExcludeEachOther ==
    QuoteHandled =>
        \A policy \in Scored :
            /\ ScoreOf(policy) <= 6
            /\ Risk = "Low" => ScoreOf(policy) <= 5
            /\ Risk \notin {"Low", "High"} => ScoreOf(policy) <= 3

\* an overlapping policy priced at the band reaches the highest score, 6
C9_Witness ==
    /\ QuoteHandled
    /\ \E policy \in Scored :
          /\ Overlapping(policy)
          /\ DocumentedPremium(policy) = Num(Band)
          /\ Risk = "High"
          /\ ScoreOf(policy) = 6

(* C10: for every non-zero preferred_premium_band, negative ones included,  *)
(* a policy gets the +3 proximity bonus only if |ref - band| < 0.2 * |band| *)
(* and the +1 bonus only if |ref - band| < 0.5 * |band|; an infinite        *)
(* reference premium gets no proximity bonus.                               *)
C10_ProximityBonusOnlyWithinTolerance ==
    QuoteHandled /\ Band # 0 =>
        \A policy \in Scored :
            LET ref == DocumentedPremium(policy)
                bonus == ProximityReceived(policy)
            IN  /\ ref.tag = "inf" => bonus = 0
                /\ ref.tag = "num" /\ bonus = 3 => 5 * Abs(ref.val - Band) < Abs(Band)
                /\ ref.tag = "num" /\ bonus = 1 => 2 * Abs(ref.val - Band) < Abs(Band)

====
